---- MODULE Spec2Model ----
(***************************************************************************)
(* Model of lib/my365py_auth.py: the credential cache (get_azure_ids,      *)
(* query_1password) and the token manager (class M365Auth).                *)
(*                                                                         *)
(* External collaborators are inputs: the 1Password client (authenticate,  *)
(* secrets.resolve), the MSAL application (acquire_token_silent,           *)
(* acquire_token_for_client) and the wall clock (datetime.now).            *)
(* File writes to the cache path are assumed to succeed.                   *)
(***************************************************************************)
EXTENDS Integers, Sequences, FiniteSets, TLC

VARIABLES
    now,            \* datetime.now(), in whole seconds
    opToken,        \* CNF["OP_SERVICE_ACCOUNT_TOKEN"] of the running process
    cacheFile,      \* the file at CNF["CRED_CACHE_FILENAME"]
    writes,         \* history: the values pickle.dump has written to the file, in order
    constructed,    \* an M365Auth instance exists in the running process
    ids,            \* self._tenant_id, _application_id, _client_secret, _user_object_id
    bearer_token,   \* self._bearer_token
    token_expiry,   \* self._token_expiry: <<>> while the attribute is unset, <<e>> once set
    last,           \* observation of the most recent call
    callers,        \* threads inside get_auth_header on the one instance: position and locals
    procs           \* processes inside get_azure_ids on the one cache file: position and locals

vars == <<now, opToken, cacheFile, writes, constructed, ids, bearer_token, token_expiry, last,
          callers, procs>>

-----------------------------------------------------------------------------
(* Bounds *)

MaxNow == 4        \* the clock stops advancing here
MaxStep == 2       \* largest number of seconds that pass between two calls
MaxLatency == 1    \* largest number of seconds a provider exchange takes

-----------------------------------------------------------------------------
(* Configuration *)

TOKEN_MIN_SEC_TO_EXP == 5

CNF == [OP_SERVICE_ACCOUNT_NAME |-> "1pwd-sdk-access",
        OP_VAULT_NAME |-> "apps-secrets",
        OP_SECRET_NAME |-> "my365py-smit-dean",
        CRED_CACHE_FILENAME |-> ".cache/azure_creds.pickle",
        TOKEN_MIN_SEC_TO_EXP |-> TOKEN_MIN_SEC_TO_EXP]

-----------------------------------------------------------------------------
(* Python values *)

None == "<None>"                       \* the None object, where a string may also stand

PyStr(x) == IF x = None THEN "None" ELSE x     \* str(x) as an f-string applies it

\* A Python value as json.loads produces it: a dict (insertion-ordered pairs
\* with unique keys) or a string.
PyDict(items) == [type |-> "dict", items |-> items, s |-> ""]
PyString(s) == [type |-> "str", items |-> <<>>, s |-> s]
PyNone == [type |-> "None", items |-> <<>>, s |-> ""]

Keys(items) == {items[i][1] : i \in 1..Len(items)}

\* d[k] for a dict d that has key k
Lookup(items, k) == items[CHOOSE i \in 1..Len(items) : items[i][1] = k][2]

\* d[k] = v on an insertion-ordered dict: an existing key keeps its position
SetItem(items, k, v) ==
    IF k \in Keys(items)
    THEN [i \in 1..Len(items) |-> IF items[i][1] = k THEN <<k, v>> ELSE items[i]]
    ELSE Append(items, <<k, v>>)

\* Python == on two values: dicts compare as mappings, order does not matter
PyEq(a, b) ==
    /\ a.type = b.type
    /\ a.s = b.s
    /\ Keys(a.items) = Keys(b.items)
    /\ \A k \in Keys(a.items) : Lookup(a.items, k) = Lookup(b.items, k)

-----------------------------------------------------------------------------
(* json.loads: the secret text is a sequence of lexical tokens *)

LBrace == [t |-> "{", k |-> "", v |-> ""]
RBrace == [t |-> "}", k |-> "", v |-> ""]
Member(k, v) == [t |-> "member", k |-> k, v |-> v]   \* "k": "v"
StrTok(s) == [t |-> "string", k |-> "", v |-> s]     \* "s"

RECURSIVE LoadMembers(_, _)
LoadMembers(toks, acc) ==
    IF toks = <<>> THEN acc
    ELSE LoadMembers(Tail(toks), SetItem(acc, Head(toks).k, Head(toks).v))

IsObjectText(text) ==
    /\ Len(text) >= 2
    /\ text[1] = LBrace
    /\ text[Len(text)] = RBrace
    /\ \A i \in 2..(Len(text) - 1) : text[i].t = "member"

IsStringText(text) == Len(text) = 1 /\ text[1].t = "string"

\* json.loads raises ValueError (JSONDecodeError) exactly when this is FALSE
JsonValid(text) == IsObjectText(text) \/ IsStringText(text)

JsonLoads(text) ==
    IF IsObjectText(text)
    THEN PyDict(LoadMembers(SubSeq(text, 2, Len(text) - 1), <<>>))
    ELSE PyString(text[1].v)

-----------------------------------------------------------------------------
(* pickle.dump / pickle.load: the file content is a sequence of opcodes *)

Op(op, arg) == [op |-> op, arg |-> arg]

\* mutation: the value of each item is lost, its key is written twice
RECURSIVE DumpItemsKeysOnly(_)
DumpItemsKeysOnly(items) ==
    IF items = <<>> THEN <<>>
    ELSE <<Op("BINUNICODE", Head(items)[1]), Op("BINUNICODE", Head(items)[1])>>
         \o DumpItemsKeysOnly(Tail(items))

RECURSIVE DumpItems(_)
DumpItems(items) ==
    IF items = <<>> THEN <<>>
    ELSE <<Op("BINUNICODE", Head(items)[1]), Op("BINUNICODE", Head(items)[2])>>
         \o DumpItems(Tail(items))

PickleDump(val) ==
    <<Op("PROTO", "")>>
    \o (IF val.type = "dict"
        THEN <<Op("EMPTY_DICT", "")>>
             \o (IF val.items = <<>> THEN <<>>
                 ELSE <<Op("MARK", "")>> \o DumpItems(val.items) \o <<Op("SETITEMS", "")>>)
        ELSE <<Op("BINUNICODE", val.s)>>)
    \o <<Op("STOP", "")>>

\* The unpickling machine: a stack of values; MARK is kept on the stack and
\* SETITEMS pops the strings above it pairwise into the dict below it.
MarkObj == [type |-> "mark", items |-> <<>>, s |-> ""]

RECURSIVE TopMark(_)
TopMark(stack) ==
    IF stack[Len(stack)] = MarkObj THEN Len(stack) ELSE TopMark(SubSeq(stack, 1, Len(stack) - 1))

RECURSIVE SetItems(_, _)
SetItems(items, strs) ==
    IF Len(strs) < 2 THEN items
    ELSE SetItems(SetItem(items, strs[1].s, strs[2].s), SubSeq(strs, 3, Len(strs)))

RECURSIVE Unpickle(_, _)
Unpickle(ops, stack) ==
    LET o == Head(ops) IN
    CASE o.op = "PROTO" -> Unpickle(Tail(ops), stack)
      [] o.op = "EMPTY_DICT" -> Unpickle(Tail(ops), Append(stack, PyDict(<<>>)))
      [] o.op = "MARK" -> Unpickle(Tail(ops), Append(stack, MarkObj))
      [] o.op = "BINUNICODE" -> Unpickle(Tail(ops), Append(stack, PyString(o.arg)))
      [] o.op = "SETITEMS" ->
            LET m == TopMark(stack)
                d == stack[m - 1]
                strs == SubSeq(stack, m + 1, Len(stack))
            IN Unpickle(Tail(ops),
                        Append(SubSeq(stack, 1, m - 2), PyDict(SetItems(d.items, strs))))
      [] o.op = "STOP" -> stack[Len(stack)]

PickleLoad(bytes) == Unpickle(bytes, <<>>)

-----------------------------------------------------------------------------
(* The Secret Resolver (1Password SDK): what it may answer *)

NoneText == <<[t |-> "<None>", k |-> "", v |-> ""]>>    \* resolve(...) returned None

SecretJson(uid) ==
    <<LBrace, Member("tenant_id", "t1"), Member("application_id", "a1"),
      Member("client_secret_value", "s1"), Member("user_object_id", uid), RBrace>>

NoSecretJson ==      \* an object without client_secret_value
    <<LBrace, Member("tenant_id", "t1"), Member("application_id", "a1"),
      Member("user_object_id", "u1"), RBrace>>

TruncatedJson == <<LBrace, Member("tenant_id", "t1")>>  \* not valid JSON

SecretTexts == {SecretJson("u1"), SecretJson("u2"), NoSecretJson, TruncatedJson}

ResolveAnswers == SecretTexts \cup {NoneText}
ClientAnswers == {"client", None}          \* Client.authenticate(...) result
EnvTokens == {"op-token", None}            \* os.getenv("OP_SERVICE_ACCOUNT_TOKEN")

-----------------------------------------------------------------------------
(* query_1password *)

\* a message is the sequence of the parts its (f-)string is made of
MsgNoEnv == <<"ERROR: could not find environment variable OP_SERVICE_ACCOUNT_TOKEN">>
MsgNoClient == <<"ERROR: could not authenticate with 1password">>
MsgNoValue == <<"ERROR: could not obtain secret from 1password">>
MsgUnbound == <<"cannot access local variable 'msg' where it is not associated with a value">>

\* mutation: the environment token is never found missing
TokenMissingNever(token) == FALSE

TokenMissing(token) == token = None      \* if token is None

\* mutation: a missing client goes unnoticed
ClientMissingNever(client) == FALSE

ClientMissing(client) == client = None   \* if client is None
ValueMissing(value) == value = NoneText  \* if value is None

QResult(exc, msg, ret, calls, logs) ==
    [exc |-> exc, msg |-> msg, ret |-> ret, calls |-> calls, logs |-> logs]

query_1password(token, client, value) ==
    IF TokenMissing(token)
    THEN QResult("OSError", MsgNoEnv, PyNone, <<>>, <<<<"error", MsgNoEnv>>>>)
    ELSE IF ClientMissing(client)
    THEN QResult("RuntimeError", MsgNoClient, PyNone, <<"authenticate">>,
                 <<<<"error", MsgNoClient>>>>)
    ELSE IF ValueMissing(value)
    THEN QResult("RuntimeError", MsgNoValue, PyNone, <<"authenticate", "resolve">>,
                 <<<<"error", MsgNoValue>>>>)
    ELSE IF ~JsonValid(value)
    \* the except clause logs msg, a local that no executed statement has bound
    THEN QResult("UnboundLocalError", MsgUnbound, PyNone, <<"authenticate", "resolve">>, <<>>)
    ELSE QResult(None, <<>>, JsonLoads(value), <<"authenticate", "resolve">>, <<>>)

-----------------------------------------------------------------------------
(* get_azure_ids *)

NoFile == [exists |-> FALSE, bytes |-> <<>>]
FileWith(bytes) == [exists |-> TRUE, bytes |-> bytes]

\* Outcome of one call: the exception (None on a normal return), the value
\* returned, the resolver calls made, the log lines and the file afterwards.
\* mutation: the cache file is never looked at
CacheHitNever(file) == FALSE

CacheHit(file) == file.exists      \* if file.exists()

\* mutation: the file is opened and an empty record dumped before the query
FileAfterFailurePartial(file) == FileWith(PickleDump(PyDict(<<>>)))

\* query_1password() raises before file.open("wb") is reached
FileAfterFailure(file) == file

get_azure_ids(file, token, client, value) ==
    IF CacheHit(file)
    THEN [exc |-> None, msg |-> <<>>, ret |-> PickleLoad(file.bytes), calls |-> <<>>,
          logs |-> <<>>, file |-> file, wrote |-> FALSE]
    ELSE LET q == query_1password(token, client, value) IN
         IF q.exc # None
         THEN [exc |-> q.exc, msg |-> q.msg, ret |-> PyNone, calls |-> q.calls,
               logs |-> q.logs, file |-> FileAfterFailure(file), wrote |-> FALSE]
         ELSE [exc |-> None, msg |-> <<>>, ret |-> q.ret, calls |-> q.calls,
               logs |-> q.logs, file |-> FileWith(PickleDump(q.ret)), wrote |-> TRUE]

-----------------------------------------------------------------------------
(* The identity provider behind the MSAL application: what it may answer *)

Tokens == {"abc", "xyz"}
Errors == {"invalid_client"}
Descriptions == {"bad secret"}

\* lifetimes below, at and above the freshness margin
Lifetimes == {TOKEN_MIN_SEC_TO_EXP - 2, TOKEN_MIN_SEC_TO_EXP, TOKEN_MIN_SEC_TO_EXP + 2}

NoResult == [k \in {} |-> ""]      \* None, or an empty dict: falsy

TokenResults == {[access_token |-> t, expires_in |-> s] : t \in Tokens, s \in Lifetimes}
ErrorResults == {[error |-> e, error_description |-> d] : e \in Errors, d \in Descriptions}
PartialResults == {[access_token |-> t] : t \in Tokens}     \* no expires_in

\* acquire_token_for_client(...) always answers with a dict
ExchangeResults == TokenResults \cup ErrorResults \cup PartialResults
\* acquire_token_silent(...) answers None or a cached token result
SilentResults == {NoResult, [access_token |-> "xyz", expires_in |-> TOKEN_MIN_SEC_TO_EXP + 2]}

Truthy(result) == DOMAIN result # {}

\* result.get(key)
Get(result, key) == IF key \in DOMAIN result THEN result[key] ELSE None

-----------------------------------------------------------------------------
(* M365Auth._refresh_token *)

\* mutation: the description is left out of the message
MsgNoTokenCodeOnly(result) ==
    <<"Could not obtain access token: ", PyStr(Get(result, "error"))>>

MsgNoToken(result) ==
    <<"Could not obtain access token: ", PyStr(Get(result, "error")), ": ",
      PyStr(Get(result, "error_description"))>>

\* mutation: the lifetime is taken for the expiry, the clock is not added
NewExpiryRelative(t, result) == <<result["expires_in"]>>

\* datetime.now() + timedelta(seconds=result["expires_in"])
NewExpiry(t, result) == <<t + result["expires_in"]>>

\* mutation: a token exactly at the margin counts as stale too
StaleInclusive(token, expiry, t) ==
    (token = None) \/ (expiry[1] - t <= CNF.TOKEN_MIN_SEC_TO_EXP)

\* the staleness test of the if statement, for a token whose expiry is set
Stale(token, expiry, t) ==
    (token = None) \/ (expiry[1] - t < CNF.TOKEN_MIN_SEC_TO_EXP)

RResult(token, expiry, t, exc, msg, calls, logs) ==
    [bearer_token |-> token, token_expiry |-> expiry, now |-> t, exc |-> exc,
     msg |-> msg, calls |-> calls, logs |-> logs]

\* mutation: the failure is logged but not raised
FailedExchangeSwallowed(token, expiry, t, result) ==
    RResult(token, expiry, t, None, <<>>, <<"silent", "exchange">>,
            <<<<"error", MsgNoToken(result)>>>>)

\* the else branch of the exchange: log the message and raise RuntimeError
FailedExchange(token, expiry, t, result) ==
    RResult(token, expiry, t, "RuntimeError", MsgNoToken(result), <<"silent", "exchange">>,
            <<<<"error", MsgNoToken(result)>>>>)

\* One run of _refresh_token on the fields (token, expiry) at time t, with the
\* answers the MSAL application gives and the time the exchange takes.
refresh_token(token, expiry, t, silent, result, latency) ==
    IF token # None /\ expiry = <<>>
    THEN \* the comparison reads self._token_expiry, which was never assigned
         RResult(token, expiry, t, "AttributeError", <<"_token_expiry">>, <<>>, <<>>)
    ELSE IF ~Stale(token, expiry, t)
    THEN RResult(token, expiry, t, None, <<>>, <<>>, <<>>)
    ELSE IF Truthy(silent)
    THEN RResult(token, expiry, t, None, <<>>, <<"silent">>,
                 <<<<"info", <<"Using cached token">>>>>>)
    ELSE IF "access_token" \in DOMAIN result
    THEN IF "expires_in" \in DOMAIN result
         THEN RResult(result["access_token"], NewExpiry(t + latency, result),
                      t + latency, None, <<>>, <<"silent", "exchange">>,
                      <<<<"success", <<"Acquired new token">>>>>>)
         ELSE RResult(result["access_token"], expiry, t + latency, "KeyError",
                      <<"expires_in">>, <<"silent", "exchange">>, <<>>)
    ELSE FailedExchange(token, expiry, t + latency, result)

-----------------------------------------------------------------------------
(* M365Auth.__init__, get_auth_header, get_user_object_id *)

NoIds == [tenant_id |-> None, application_id |-> None, client_secret |-> None,
          user_object_id |-> None]

\* the four subscripts of __init__: a missing key raises KeyError
CredsError(creds) ==
    IF creds.type # "dict" THEN "TypeError"
    ELSE IF {"tenant_id", "application_id", "client_secret_value", "user_object_id"}
                \subseteq Keys(creds.items)
    THEN None ELSE "KeyError"

\* mutation: the client secret is not taken from the credentials
IdsOfNoSecret(creds) ==
    [tenant_id |-> Lookup(creds.items, "tenant_id"),
     application_id |-> Lookup(creds.items, "application_id"),
     client_secret |-> None,
     user_object_id |-> Lookup(creds.items, "user_object_id")]

IdsOf(creds) ==
    [tenant_id |-> Lookup(creds.items, "tenant_id"),
     application_id |-> Lookup(creds.items, "application_id"),
     client_secret |-> Lookup(creds.items, "client_secret_value"),
     user_object_id |-> Lookup(creds.items, "user_object_id")]

\* mutation: the accessor hands out another field of the instance
get_user_object_id_wrong_field(self_ids) == self_ids.application_id

\* return self._user_object_id
get_user_object_id(self_ids) == self_ids.user_object_id

NoHeader == [k \in {} |-> ""]

Header(token) ==
    ("Authorization" :> ("Bearer " \o PyStr(token))) @@ ("Content-Type" :> "application/json")

-----------------------------------------------------------------------------
(* Inputs: an answer of a collaborator is drawn only when the call is made *)

NotAsked == "-"
DefaultResult == CHOOSE r \in ErrorResults : TRUE

ResolverAnswered(file, token, client, value) ==
    /\ (CacheHit(file) \/ TokenMissing(token)) => client = "client"
    /\ (CacheHit(file) \/ TokenMissing(token) \/ ClientMissing(client)) => value = NoneText

ProviderAnswered(reached, token, expiry, t, silent, result, latency) ==
    LET asked == reached /\ (token = None \/ (expiry # <<>> /\ Stale(token, expiry, t))) IN
    /\ ~asked => silent = NoResult
    /\ (~asked \/ Truthy(silent)) => (result = DefaultResult /\ latency = 0)

\* What a call did, as an observer of the call sees it.
NoCall ==
    [op |-> "none", exc |-> None, msg |-> <<>>, header |-> NoHeader, creds |-> PyNone,
     uid |-> None, refresh |-> FALSE, providerCalls |-> <<>>, resolverCalls |-> <<>>,
     wrote |-> FALSE, logs |-> <<>>, silent |-> NoResult, result |-> NoResult,
     client |-> NotAsked, value |-> NoneText, pre_token |-> None, pre_expiry |-> <<>>,
     pre_now |-> 0, post_now |-> 0, pre_exists |-> FALSE]

Called(op) ==
    [NoCall EXCEPT !.op = op, !.pre_token = bearer_token, !.pre_expiry = token_expiry,
                   !.pre_now = now, !.post_now = now, !.pre_exists = cacheFile.exists]

\* ... what get_azure_ids did in it (g), with the resolver's answers
WithAzureIds(obs, g, client, value) ==
    [obs EXCEPT !.exc = g.exc, !.msg = g.msg, !.creds = g.ret, !.resolverCalls = g.calls,
                !.wrote = g.wrote, !.logs = g.logs,
                !.client = IF g.calls # <<>> THEN client ELSE NotAsked,
                !.value = IF Len(g.calls) = 2 THEN value ELSE NoneText]

\* ... what _refresh_token did in it (r), with the provider's answers
WithRefresh(obs, r, silent, result) ==
    [obs EXCEPT !.refresh = TRUE, !.exc = r.exc, !.msg = r.msg, !.providerCalls = r.calls,
                !.logs = @ \o r.logs, !.post_now = r.now,
                !.silent = IF r.calls # <<>> THEN silent ELSE NoResult,
                !.result = IF Len(r.calls) = 2 THEN result ELSE NoResult]

-----------------------------------------------------------------------------
(* Concurrent callers and processes: none in the single-threaded program *)

Callers == {1, 2}
Procs == {1, 2}

IdleCaller ==
    [pc |-> "idle", tok |-> None, stale |-> FALSE, silent |-> NoResult, result |-> NoResult,
     exchanged |-> FALSE, exc |-> None, header |-> NoHeader]
NoCallers == [c \in Callers |-> IdleCaller]

IdleProc ==
    [pc |-> "idle", found |-> FALSE, queried |-> FALSE, creds |-> PyNone, wrote |-> FALSE,
     exc |-> None, ret |-> PyNone]
NoProcs == [p \in Procs |-> IdleProc]

-----------------------------------------------------------------------------
(* The program *)

Init ==
    /\ now = 0
    /\ opToken \in EnvTokens
    /\ cacheFile = NoFile
    /\ writes = <<>>
    /\ constructed = FALSE
    /\ ids = NoIds
    /\ bearer_token = None
    /\ token_expiry = <<>>
    /\ last = NoCall
    /\ callers = NoCallers
    /\ procs = NoProcs

\* time passes between two calls
Tick ==
    \E d \in 1..MaxStep :
        /\ now + d <= MaxNow
        /\ now' = now + d
        /\ UNCHANGED <<opToken, cacheFile, writes, constructed, ids, bearer_token,
                       token_expiry, last, callers, procs>>

\* the process ends and a later process starts; only the cache file survives
Restart ==
    /\ last.op # "none"
    /\ opToken' \in EnvTokens
    /\ constructed' = FALSE
    /\ ids' = NoIds
    /\ bearer_token' = None
    /\ token_expiry' = <<>>
    /\ last' = NoCall
    /\ UNCHANGED <<now, cacheFile, writes, callers, procs>>

\* a call of get_azure_ids()
GetAzureIds ==
    \E client \in ClientAnswers, value \in ResolveAnswers :
        /\ ResolverAnswered(cacheFile, opToken, client, value)
        /\ LET g == get_azure_ids(cacheFile, opToken, client, value) IN
            /\ cacheFile' = g.file
            /\ writes' = IF g.wrote THEN Append(writes, g.ret) ELSE writes
            /\ last' = WithAzureIds(Called("get_azure_ids"), g, client, value)
        /\ UNCHANGED <<now, opToken, constructed, ids, bearer_token, token_expiry, callers,
                       procs>>

\* M365Auth(): get_azure_ids, the four fields, the MSAL application, then
\* _refresh_token on a None token; an exception leaves no instance behind.
Construct ==
    /\ ~constructed
    /\ \E client \in ClientAnswers, value \in ResolveAnswers :
        /\ ResolverAnswered(cacheFile, opToken, client, value)
        /\ LET g == get_azure_ids(cacheFile, opToken, client, value)
               ce == IF g.exc # None THEN g.exc ELSE CredsError(g.ret)
               obs == WithAzureIds(Called("init"), g, client, value)
           IN
           \E silent \in SilentResults, result \in ExchangeResults, latency \in 0..MaxLatency :
            /\ ProviderAnswered(ce = None, None, <<>>, now, silent, result, latency)
            /\ now + latency <= MaxNow
            /\ cacheFile' = g.file
            /\ writes' = IF g.wrote THEN Append(writes, g.ret) ELSE writes
            /\ IF ce # None
               THEN /\ last' = [obs EXCEPT !.exc = ce]
                    /\ UNCHANGED <<now, constructed, ids, bearer_token, token_expiry>>
               ELSE LET r == refresh_token(None, <<>>, now, silent, result, latency)
                        done == [WithRefresh(obs, r, silent, result) EXCEPT
                                   !.logs = @ \o <<<<"success", <<"Initialized M365BearerToken">>>>>>]
                    IN
                    /\ now' = r.now
                    /\ IF r.exc = None
                       THEN /\ last' = done
                            /\ constructed' = TRUE
                            /\ ids' = IdsOf(g.ret)
                            /\ bearer_token' = r.bearer_token
                            /\ token_expiry' = r.token_expiry
                       ELSE /\ last' = WithRefresh(obs, r, silent, result)
                            /\ UNCHANGED <<constructed, ids, bearer_token, token_expiry>>
    /\ UNCHANGED <<opToken, callers, procs>>

\* get_auth_header() on the instance
GetAuthHeader ==
    /\ constructed
    /\ \E silent \in SilentResults, result \in ExchangeResults, latency \in 0..MaxLatency :
        /\ ProviderAnswered(TRUE, bearer_token, token_expiry, now, silent, result, latency)
        /\ now + latency <= MaxNow
        /\ LET r == refresh_token(bearer_token, token_expiry, now, silent, result, latency) IN
            /\ now' = r.now
            /\ bearer_token' = r.bearer_token
            /\ token_expiry' = r.token_expiry
            /\ last' = [WithRefresh(Called("get_auth_header"), r, silent, result) EXCEPT
                          !.header = IF r.exc = None THEN Header(r.bearer_token) ELSE NoHeader]
    /\ UNCHANGED <<opToken, cacheFile, writes, constructed, ids, callers, procs>>

\* get_user_object_id() on the instance
GetUserObjectId ==
    /\ constructed
    /\ last' = [Called("get_user_object_id") EXCEPT !.uid = get_user_object_id(ids)]
    /\ UNCHANGED <<now, opToken, cacheFile, writes, constructed, ids, bearer_token,
                   token_expiry, callers, procs>>

Next ==
    \/ Tick
    \/ Restart
    \/ GetAzureIds
    \/ Construct
    \/ GetAuthHeader
    \/ GetUserObjectId

Spec == Init /\ [][Next]_vars

TypeOK ==
    /\ now \in 0..MaxNow
    /\ opToken \in EnvTokens
    /\ constructed \in BOOLEAN
    /\ bearer_token \in Tokens \cup {None}
    /\ Len(token_expiry) <= 1
    /\ cacheFile.exists \in BOOLEAN

-----------------------------------------------------------------------------
(* Two threads in get_auth_header on the one instance.  Every read or write  *)
(* of an attribute and every call of the MSAL application is a step of its   *)
(* own; the locals of a thread are the fields of callers[c].                 *)

\* the instance as M365Auth() left it at time 0
ConcInit ==
    LET creds == JsonLoads(SecretJson("u1")) IN
    /\ now = 0
    /\ opToken = "op-token"
    /\ cacheFile = FileWith(PickleDump(creds))
    /\ writes = <<creds>>
    /\ constructed = TRUE
    /\ ids = IdsOf(creds)
    /\ \E silent \in SilentResults, result \in TokenResults :
          LET r == refresh_token(None, <<>>, 0, silent, result, 0) IN
          /\ bearer_token = r.bearer_token
          /\ token_expiry = r.token_expiry
    /\ last = NoCall
    /\ callers = NoCallers
    /\ procs = NoProcs

\* get_auth_header() is entered and calls self._refresh_token()
CallHeader(c) ==
    /\ callers[c].pc = "idle"
    /\ callers' = [callers EXCEPT ![c].pc = "check_token"]
    /\ UNCHANGED <<now, opToken, cacheFile, writes, constructed, ids, bearer_token,
                   token_expiry, last, procs>>

\* if self._bearer_token is None or ...: the left operand
CheckToken(c) ==
    /\ callers[c].pc = "check_token"
    /\ callers' = [callers EXCEPT ![c] =
                     IF bearer_token = None
                     THEN [callers[c] EXCEPT !.pc = "silent", !.stale = TRUE]
                     ELSE [callers[c] EXCEPT !.pc = "check_expiry", !.tok = bearer_token]]
    /\ UNCHANGED <<now, opToken, cacheFile, writes, constructed, ids, bearer_token,
                   token_expiry, last, procs>>

\* ... (self._token_expiry - datetime.now()).total_seconds() < margin: the right operand
CheckExpiry(c) ==
    /\ callers[c].pc = "check_expiry"
    /\ callers' = [callers EXCEPT ![c] =
                     IF token_expiry = <<>>
                     THEN [callers[c] EXCEPT !.pc = "done", !.tok = None,
                                             !.exc = "AttributeError"]
                     ELSE IF Stale(callers[c].tok, token_expiry, now)
                     THEN [callers[c] EXCEPT !.pc = "silent", !.tok = None, !.stale = TRUE]
                     ELSE [callers[c] EXCEPT !.pc = "return", !.tok = None]]
    /\ UNCHANGED <<now, opToken, cacheFile, writes, constructed, ids, bearer_token,
                   token_expiry, last, procs>>

\* result = self._msal_app.acquire_token_silent(...); if result: log only
AcquireSilent(c) ==
    /\ callers[c].pc = "silent"
    /\ \E silent \in SilentResults :
        callers' = [callers EXCEPT ![c] =
                      [callers[c] EXCEPT !.silent = silent,
                                         !.pc = IF Truthy(silent) THEN "return"
                                                ELSE "exchange"]]
    /\ UNCHANGED <<now, opToken, cacheFile, writes, constructed, ids, bearer_token,
                   token_expiry, last, procs>>

\* result = self._msal_app.acquire_token_for_client(...); if "access_token" in result
AcquireForClient(c) ==
    /\ callers[c].pc = "exchange"
    /\ \E result \in ExchangeResults, latency \in 0..MaxLatency :
        /\ now + latency <= MaxNow
        /\ now' = now + latency
        /\ callers' = [callers EXCEPT ![c] =
                         IF "access_token" \in DOMAIN result
                         THEN [callers[c] EXCEPT !.result = result, !.exchanged = TRUE,
                                                 !.pc = "set_token"]
                         ELSE [callers[c] EXCEPT
                                 !.result = result, !.exchanged = TRUE, !.pc = "done",
                                 !.exc = FailedExchange(bearer_token, token_expiry,
                                                        now + latency, result).exc]]
    /\ UNCHANGED <<opToken, cacheFile, writes, constructed, ids, bearer_token,
                   token_expiry, last, procs>>

\* self._bearer_token = result["access_token"]
SetToken(c) ==
    /\ callers[c].pc = "set_token"
    /\ bearer_token' = callers[c].result["access_token"]
    /\ callers' = [callers EXCEPT ![c].pc = "set_expiry"]
    /\ UNCHANGED <<now, opToken, cacheFile, writes, constructed, ids, token_expiry, last,
                   procs>>

\* self._token_expiry = datetime.now() + timedelta(seconds=result["expires_in"])
SetExpiry(c) ==
    /\ callers[c].pc = "set_expiry"
    /\ IF "expires_in" \in DOMAIN callers[c].result
       THEN /\ token_expiry' = NewExpiry(now, callers[c].result)
            /\ callers' = [callers EXCEPT ![c].pc = "return"]
       ELSE /\ token_expiry' = token_expiry
            /\ callers' = [callers EXCEPT ![c] =
                             [callers[c] EXCEPT !.pc = "done", !.exc = "KeyError"]]
    /\ UNCHANGED <<now, opToken, cacheFile, writes, constructed, ids, bearer_token, last,
                   procs>>

\* return {"Authorization": f"Bearer {self._bearer_token}", ...}
ReturnHeader(c) ==
    /\ callers[c].pc = "return"
    /\ callers' = [callers EXCEPT ![c] =
                     [callers[c] EXCEPT !.pc = "done", !.header = Header(bearer_token)]]
    /\ UNCHANGED <<now, opToken, cacheFile, writes, constructed, ids, bearer_token,
                   token_expiry, last, procs>>

NextConc ==
    \/ Tick
    \/ \E c \in Callers : CallHeader(c)
    \/ \E c \in Callers : CheckToken(c)
    \/ \E c \in Callers : CheckExpiry(c)
    \/ \E c \in Callers : AcquireSilent(c)
    \/ \E c \in Callers : AcquireForClient(c)
    \/ \E c \in Callers : SetToken(c)
    \/ \E c \in Callers : SetExpiry(c)
    \/ \E c \in Callers : ReturnHeader(c)

SpecConc == ConcInit /\ [][NextConc]_vars

-----------------------------------------------------------------------------
(* Two processes in get_azure_ids on the one cache file.  The test for the   *)
(* file, the read, the resolver query, the open and the write are steps of   *)
(* their own; the locals of a process are the fields of procs[p].            *)

\* mutation: the file is opened for appending
FileWriteAppend(old, new) == old \o new

\* A write at offset 0 through a handle of its own: the bytes written replace
\* the first Len(new) bytes, what the file holds beyond them stays.
FileWrite(old, new) == new \o SubSeq(old, Len(new) + 1, Len(old))

\* get_azure_ids() is entered
EnterAzureIds(p) ==
    /\ procs[p].pc = "idle"
    /\ procs' = [procs EXCEPT ![p].pc = "exists"]
    /\ UNCHANGED <<now, opToken, cacheFile, writes, constructed, ids, bearer_token,
                   token_expiry, last, callers>>

\* if file.exists():
TestExists(p) ==
    /\ procs[p].pc = "exists"
    /\ procs' = [procs EXCEPT ![p] =
                   IF CacheHit(cacheFile)
                   THEN [procs[p] EXCEPT !.pc = "read", !.found = TRUE]
                   ELSE [procs[p] EXCEPT !.pc = "query"]]
    /\ UNCHANGED <<now, opToken, cacheFile, writes, constructed, ids, bearer_token,
                   token_expiry, last, callers>>

\* with file.open("rb") as f: creds = pickle.load(f); return creds
ReadCache(p) ==
    /\ procs[p].pc = "read"
    /\ procs' = [procs EXCEPT ![p] =
                   IF cacheFile.bytes = <<>>
                   THEN [procs[p] EXCEPT !.pc = "done", !.exc = "EOFError"]
                   ELSE [procs[p] EXCEPT !.pc = "done",
                                         !.ret = PickleLoad(cacheFile.bytes)]]
    /\ UNCHANGED <<now, opToken, cacheFile, writes, constructed, ids, bearer_token,
                   token_expiry, last, callers>>

\* creds = asyncio.run(query_1password())
QuerySecret(p) ==
    /\ procs[p].pc = "query"
    /\ \E client \in ClientAnswers, value \in ResolveAnswers :
        /\ ResolverAnswered(NoFile, opToken, client, value)
        /\ LET q == query_1password(opToken, client, value) IN
           procs' = [procs EXCEPT ![p] =
                       IF q.exc # None
                       THEN [procs[p] EXCEPT !.pc = "done", !.exc = q.exc,
                                             !.queried = q.calls # <<>>]
                       ELSE [procs[p] EXCEPT !.pc = "open", !.creds = q.ret,
                                             !.queried = TRUE]]
    /\ UNCHANGED <<now, opToken, cacheFile, writes, constructed, ids, bearer_token,
                   token_expiry, last, callers>>

\* file.open("wb"): the file is created, or cut to length 0
OpenWrite(p) ==
    /\ procs[p].pc = "open"
    /\ cacheFile' = FileWith(<<>>)
    /\ procs' = [procs EXCEPT ![p].pc = "dump"]
    /\ UNCHANGED <<now, opToken, writes, constructed, ids, bearer_token, token_expiry,
                   last, callers>>

\* pickle.dump(creds, f), flushed when the with block closes f; return creds
DumpCreds(p) ==
    /\ procs[p].pc = "dump"
    /\ cacheFile' = FileWith(FileWrite(cacheFile.bytes, PickleDump(procs[p].creds)))
    /\ writes' = Append(writes, procs[p].creds)
    /\ procs' = [procs EXCEPT ![p] =
                   [procs[p] EXCEPT !.pc = "done", !.wrote = TRUE, !.ret = procs[p].creds]]
    /\ UNCHANGED <<now, opToken, constructed, ids, bearer_token, token_expiry, last,
                   callers>>

NextRace ==
    \/ \E p \in Procs : EnterAzureIds(p)
    \/ \E p \in Procs : TestExists(p)
    \/ \E p \in Procs : ReadCache(p)
    \/ \E p \in Procs : QuerySecret(p)
    \/ \E p \in Procs : OpenWrite(p)
    \/ \E p \in Procs : DumpCreds(p)

SpecRace == Init /\ [][NextRace]_vars

-----------------------------------------------------------------------------
(* Properties *)

Margin == CNF.TOKEN_MIN_SEC_TO_EXP

\* the last call ran get_azure_ids (directly or from the constructor)
AzureRan == last.op \in {"get_azure_ids", "init"}

\* the last call ran _refresh_token and it went as far as the exchange
Exchanged == last.refresh /\ Len(last.providerCalls) = 2

Range(seq) == {seq[i] : i \in 1..Len(seq)}

\* C1: in every run of the refresh step the provider is contacted (silent
\* acquisition or exchange) if and only if no bearer token was held or
\* expiry - now was strictly below TOKEN_MIN_SEC_TO_EXP; with a token held
\* and expiry - now >= TOKEN_MIN_SEC_TO_EXP no provider call is made.
C1_FreshnessRule ==
    last.refresh =>
        ((last.providerCalls # <<>>) <=>
            \/ last.pre_token = None
            \/ /\ last.pre_expiry # <<>>
               /\ last.pre_expiry[1] - last.pre_now < Margin)

C1_Witness ==
    /\ last.op = "get_auth_header"
    /\ last.pre_token # None
    /\ last.pre_expiry # <<>>
    /\ last.pre_expiry[1] - last.pre_now < Margin
    /\ last.providerCalls = <<"silent", "exchange">>

\* C2: every normal return of get_auth_header is a mapping with exactly the
\* keys Authorization and Content-Type whose Authorization value is
\* "Bearer " followed by a token of the provider, never an absent token.
C2_HeaderShape ==
    (last.op = "get_auth_header" /\ last.exc = None) =>
        /\ DOMAIN last.header = {"Authorization", "Content-Type"}
        /\ \E t \in Tokens : last.header["Authorization"] = "Bearer " \o t

\* C3: whenever get_auth_header returns normally, the token in the header
\* is valid at the moment of return: expiry - now >= TOKEN_MIN_SEC_TO_EXP.
C3_ValidOnReturn ==
    (last.op = "get_auth_header" /\ last.exc = None) =>
        /\ bearer_token # None
        /\ token_expiry # <<>>
        /\ token_expiry[1] - last.post_now >= Margin

\* the exchange of the last call answered {access_token, expires_in}
ExchangeOK == Exchanged /\ {"access_token", "expires_in"} \subseteq DOMAIN last.result

\* ... then the token is the answer's token, the expiry is the time of the
\* exchange plus expires_in, and get_auth_header returned the header of it
ExchangeStored ==
    ExchangeOK =>
        /\ bearer_token = last.result["access_token"]
        /\ token_expiry = <<last.post_now + last.result["expires_in"]>>
        /\ last.exc = None
        /\ last.op = "get_auth_header" => last.header = Header(last.result["access_token"])

\* the next call of get_auth_header makes no provider call and returns the
\* header of the exchanged token
NextCallReuses ==
    /\ last'.providerCalls = <<>>
    /\ last'.exc = None
    /\ last'.header = Header(last.result["access_token"])

\* C4 (amended): after an exchange answered {access_token: t, expires_in: s}
\* the token is t and the expiry is the time of the exchange + s, and
\* get_auth_header returns the header of t; a get_auth_header call made
\* while expiry - now >= TOKEN_MIN_SEC_TO_EXP still holds makes no further
\* provider call and returns the same header.
C4_SuccessfulExchange ==
    /\ []ExchangeStored
    /\ [][(ExchangeOK /\ token_expiry[1] - now >= Margin /\ GetAuthHeader)
            => NextCallReuses]_vars

\* C4 as claimed: ... and a get_auth_header call made immediately after the
\* exchange makes no further provider call and returns the same header,
\* whatever expires_in was.
C4_AsClaimed ==
    /\ []ExchangeStored
    /\ [][(ExchangeOK /\ now = last.post_now /\ GetAuthHeader) => NextCallReuses]_vars

C4_Witness ==
    /\ last.op = "get_auth_header"
    /\ ExchangeOK
    /\ last.result["expires_in"] >= Margin
    /\ last.pre_token # None
    /\ last.post_now > last.pre_now

\* C5: when the exchange answers without access_token, the call ends in a
\* RuntimeError whose message contains the provider's error code and
\* description, returns no header, and leaves token and expiry as they were.
C5_FailedExchange ==
    (Exchanged /\ "access_token" \notin DOMAIN last.result) =>
        /\ last.exc = "RuntimeError"
        /\ last.result["error"] \in Range(last.msg)
        /\ last.result["error_description"] \in Range(last.msg)
        /\ <<"error", last.msg>> \in Range(last.logs)
        /\ last.header = NoHeader
        /\ bearer_token = last.pre_token
        /\ token_expiry = last.pre_expiry

C5_Witness ==
    /\ last.op = "get_auth_header"
    /\ Exchanged
    /\ "access_token" \notin DOMAIN last.result
    /\ last.pre_token # None
    /\ last.exc = "RuntimeError"

\* C6: when the cache file exists, get_azure_ids returns the record stored
\* in the file, calls the Secret Resolver zero times and writes nothing; two
\* calls in a row against the existing file return the identical record.
C6_CacheHit ==
    /\ [](AzureRan /\ last.pre_exists =>
            /\ last.op = "get_azure_ids" => last.exc = None
            /\ last.resolverCalls = <<>>
            /\ ~last.wrote
            /\ last.creds = PickleLoad(cacheFile.bytes))
    /\ [][(AzureRan /\ last.pre_exists /\ GetAzureIds) =>
            (last'.creds = last.creds /\ cacheFile' = cacheFile)]_vars

C6_Witness ==
    /\ last.op = "get_azure_ids"
    /\ last.pre_exists
    /\ last.creds.type = "dict"
    /\ last.resolverCalls = <<>>

\* the resolver of the last call answered with valid JSON
Resolved == Len(last.resolverCalls) = 2 /\ last.value # NoneText /\ JsonValid(last.value)

\* C7: with the file absent and the resolver succeeding with record R,
\* get_azure_ids writes R to the file and returns R; afterwards, in this and
\* in later processes, the resolver is never contacted again, the file is
\* never rewritten, and every call returns a record equal to R.
C7_ResolveOnce ==
    /\ (AzureRan /\ ~last.pre_exists /\ Resolved) =>
            /\ last.wrote
            /\ last.creds = JsonLoads(last.value)
            /\ writes = <<last.creds>>
    /\ Len(writes) <= 1
    /\ cacheFile.exists <=> Len(writes) = 1
    /\ (AzureRan /\ last.pre_exists) =>
            /\ last.resolverCalls = <<>>
            /\ ~last.wrote
            /\ PyEq(last.creds, writes[1])

C7_Witness ==
    /\ last.op = "init"
    /\ last.pre_exists
    /\ writes # <<>>
    /\ PyEq(last.creds, writes[1])
    /\ last.creds = JsonLoads(SecretJson("u2"))

\* C8: with the file absent and OP_SERVICE_ACCOUNT_TOKEN not set,
\* get_azure_ids fails with OSError before any Secret Resolver call.
C8_MissingEnvToken ==
    (AzureRan /\ ~last.pre_exists /\ opToken = None) =>
        /\ last.exc = "OSError"
        /\ last.resolverCalls = <<>>

C8_Witness ==
    /\ last.op = "get_azure_ids"
    /\ ~last.pre_exists
    /\ opToken = None
    /\ last.exc = "OSError"

\* C9: with the file absent, authentication succeeding and the resolved
\* blob not valid JSON, get_azure_ids fails with ValueError and with no
\* other kind of error, after logging the failure.
C9_MalformedSecret ==
    (AzureRan /\ ~last.pre_exists /\ Len(last.resolverCalls) = 2
        /\ last.value # NoneText /\ ~JsonValid(last.value)) =>
        /\ last.exc = "ValueError"
        /\ \E i \in 1..Len(last.logs) : last.logs[i][1] = "error"

\* C10: with the file absent, when authenticate yields no client or resolve
\* yields no value, get_azure_ids fails with RuntimeError; in the no-client
\* case resolve is never called.
C10_ResolverFailure ==
    (AzureRan /\ ~last.pre_exists) =>
        /\ last.client = None =>
              (last.exc = "RuntimeError" /\ last.resolverCalls = <<"authenticate">>)
        /\ (Len(last.resolverCalls) = 2 /\ last.value = NoneText) =>
              last.exc = "RuntimeError"

C10_Witness ==
    /\ last.op = "get_azure_ids"
    /\ last.client = None
    /\ last.exc = "RuntimeError"
    /\ last.resolverCalls = <<"authenticate">>

\* the record that construction loaded: the one the cache file holds
LoadedCreds == PickleLoad(cacheFile.bytes)

\* C11: get_user_object_id makes no provider call and no Secret Resolver
\* call, leaves the bearer token, the expiry and the cache file unchanged,
\* and returns the user_object_id of the credentials loaded at construction,
\* which no get_auth_header call, successful or failing, changes.
C11_PureAccessor ==
    /\ [](last.op = "get_user_object_id" =>
            /\ last.exc = None
            /\ last.providerCalls = <<>>
            /\ last.resolverCalls = <<>>
            /\ ~last.wrote
            /\ last.uid = Lookup(LoadedCreds.items, "user_object_id"))
    /\ [][GetUserObjectId =>
            UNCHANGED <<now, cacheFile, writes, bearer_token, token_expiry, ids>>]_vars
    /\ [][GetAuthHeader => ids' = ids]_vars

C11_Witness ==
    /\ last.op = "get_user_object_id"
    /\ last.uid = "u2"
    /\ bearer_token # None
    /\ token_expiry = <<>>

\* the constructor of the last call got a dict from get_azure_ids
InitGotCreds == last.op = "init" /\ last.creds.type = "dict"

C13_SilentFirst ==
    (last.refresh /\ last.providerCalls # <<>>) =>
        /\ last.providerCalls[1] = "silent"
        /\ Len(last.providerCalls) = 2 <=> ~Truthy(last.silent)
        /\ Truthy(last.silent) =>
              /\ bearer_token = last.silent["access_token"]
              /\ token_expiry = <<last.post_now + last.silent["expires_in"]>>

\* C14: a refresh replaces token and expiry by the values of one provider
\* response, or it replaces neither, also when it ends in an error.
C14_AtomicPair ==
    last.refresh =>
        \/ /\ bearer_token = last.pre_token
           /\ token_expiry = last.pre_expiry
        \/ /\ ExchangeOK
           /\ bearer_token = last.result["access_token"]
           /\ token_expiry = <<last.post_now + last.result["expires_in"]>>

\* C15: once the constructor has returned normally a bearer token is held,
\* and no later call of the instance brings it back to no token.
C15_TokenHeld == constructed => bearer_token # None

\* the four fields of the identity credentials
CredFields == {"tenant_id", "application_id", "client_secret_value", "user_object_id"}

\* C16: whenever the cache file exists it holds a record with all four
\* fields, so a constructor that finds the file never fails on a missing
\* field; a blob that lacks a field is never persisted.
C16_CompleteCache ==
    /\ cacheFile.exists =>
          (LoadedCreds.type = "dict" /\ CredFields \subseteq Keys(LoadedCreds.items))
    /\ (last.op = "init" /\ last.pre_exists) => last.exc \notin {"KeyError", "TypeError"}
          \/ last.refresh

\* C17: one run of the refresh step makes at most one silent attempt and at
\* most one exchange; an exchange that fails always ends the enclosing call
\* in an error, with no header returned; the provider is contacted only
\* inside a constructor or get_auth_header call.
C17_NoRetry ==
    /\ [](last.refresh =>
            /\ last.providerCalls \in {<<>>, <<"silent">>, <<"silent", "exchange">>}
            /\ (Exchanged /\ ~ExchangeOK) =>
                  /\ last.exc \in {"RuntimeError", "KeyError"}
                  /\ last.header = NoHeader
                  /\ last.op = "init" => ~constructed)
    /\ [][(last' # last /\ last'.providerCalls # <<>>) => (Construct \/ GetAuthHeader)]_vars

C17_Witness ==
    /\ last.op = "init"
    /\ Exchanged
    /\ "access_token" \notin DOMAIN last.result
    /\ last.exc = "RuntimeError"
    /\ ~constructed

\* The tokens the exchanges of the two threads issued.
IssuedTokens ==
    {callers[c].result["access_token"] :
        c \in {d \in Callers : callers[d].exchanged /\ "access_token" \in DOMAIN callers[d].result}}

\* C18: when two concurrent callers of get_auth_header both find the token
\* stale, both make their own provider exchange, and each caller that returns
\* returns a header that carries a token issued by one of those exchanges.
C18_ConcurrentRefresh ==
    (\A c \in Callers : callers[c].pc = "done" /\ callers[c].stale) =>
        \A c \in Callers :
            /\ callers[c].exchanged
            /\ callers[c].exc = None =>
                  \E t \in IssuedTokens : callers[c].header = Header(t)

RaceOver == \A p \in Procs : procs[p].pc = "done" /\ procs[p].wrote
LastWritten == writes[Len(writes)]

\* C19: when both processes found the cache file absent and both have written,
\* a load of the cache file yields the record of the last writer: the file
\* begins with that record's complete pickle (bytes of the other, longer
\* pickle may follow its STOP, where pickle.load does not read), and each
\* process returns the record it resolved itself.
C19_LastWriterWins ==
    /\ \A p \in Procs : (procs[p].pc = "done" /\ procs[p].wrote) =>
            procs[p].exc = None /\ procs[p].ret = procs[p].creds /\ ~procs[p].found
    /\ RaceOver =>
            /\ Len(writes) = 2
            /\ PickleLoad(cacheFile.bytes) = LastWritten
            /\ SubSeq(cacheFile.bytes, 1, Len(PickleDump(LastWritten)))
                 = PickleDump(LastWritten)

\* C19 as the claim states it: the file holds exactly the last writer's record
C19_AsClaimed ==
    RaceOver =>
        /\ cacheFile.bytes = PickleDump(LastWritten)
        /\ \A p \in Procs : procs[p].ret = procs[p].creds

C19_Witness ==
    /\ RaceOver
    /\ procs[1].creds # procs[2].creds
    /\ Len(cacheFile.bytes) > Len(PickleDump(LastWritten))

\* C20: the staleness comparison reads the expiry only when a token is held,
\* and whenever a token is held an expiry has been assigned, so no refresh
\* step fails on an undefined expiry.
C20_ExpiryDefined ==
    /\ bearer_token # None => token_expiry # <<>>
    /\ last.exc # "AttributeError"

\* get_azure_ids ran on an absent file and ended in an error
ResolveFailed == AzureRan /\ ~last.pre_exists /\ ~last.wrote

\* C21: a get_azure_ids that starts with the cache file absent and ends in an
\* error leaves the file absent and nothing written; the file comes into
\* being only by a successful resolution; so the next call takes the resolve
\* path again and contacts the Secret Resolver exactly when the environment
\* token is set (without it the call fails with OSError again).
C21_NoCacheAfterFailure ==
    /\ [](ResolveFailed =>
            /\ last.exc \in {"OSError", "RuntimeError", "UnboundLocalError"}
            /\ last.creds = PyNone
            /\ ~cacheFile.exists
            /\ writes = <<>>)
    /\ [][(~cacheFile.exists /\ cacheFile'.exists) => (last'.wrote /\ last'.exc # "OSError")]_vars
    /\ [][(ResolveFailed /\ (GetAzureIds \/ Construct)) =>
            /\ ~last'.pre_exists
            /\ last'.resolverCalls # <<>> <=> opToken # None
            /\ opToken = None => last'.exc = "OSError"]_vars

\* C21 as the claim states it: the next call always queries the Secret Resolver
C21_AsClaimed ==
    [][(ResolveFailed /\ (GetAzureIds \/ Construct)) => last'.resolverCalls # <<>>]_vars

C21_Witness ==
    /\ last.op = "get_azure_ids"
    /\ ~last.pre_exists
    /\ last.exc = "UnboundLocalError"
    /\ last.value = TruncatedJson
    /\ ~cacheFile.exists

====
